---- MODULE Spec2Model ----
(***************************************************************************)
(* Model of monitoring/api/v3/metrics_list.py: the classification of       *)
(* metric type names (get_type_pieces, get_path_prefix), the accumulation  *)
(* of metric descriptors in the module globals (read_metric_descriptors)   *)
(* and the sorted traversal that prints the page (format_metric_lists).    *)
(*                                                                         *)
(* A Python string is a sequence of one-character strings, so that split,  *)
(* join, format and the comparison used by sorted() are computed and not   *)
(* assumed.                                                                *)
(***************************************************************************)
EXTENDS Integers, Sequences, FiniteSets, TLC

VARIABLES
    \* ---- the process running main() ----
    pc,               \* position of the process in main()
    custom,           \* --custom
    timeseries,       \* --timeseries
    starts_with,      \* --starts_with (<<>> when not given)
    response,         \* what request.execute() returns for metricDescriptors.list
    idx,              \* position of the for loop in descriptor_list
    count,            \* local count of read_metric_descriptors
    GROUP_SET,
    SERVICE_SET,
    METRIC_DICT,
    TIME_SERIES_SET,
    probes,           \* metric types for which timeSeries.list was requested
    stderr,           \* lines written to sys.stderr
    stdout,           \* lines printed by format_metric_lists
    calls,            \* calls of read_metric_descriptors made on these globals
    run,              \* which report-generation run (process) this is
    prev,             \* what the previous run read and printed
    \* ---- a direct call of the classifier functions ----
    parts,            \* the pieces the argument was assembled from
    arg,              \* the argument of get_type_pieces
    pieces,           \* what get_type_pieces returned or raised
    prefix,           \* what get_path_prefix returned
    fpc               \* position of the direct call

vars ==
    <<pc, custom, timeseries, starts_with, response, idx, count, GROUP_SET,
      SERVICE_SET, METRIC_DICT, TIME_SERIES_SET, probes, stderr, stdout, calls,
      run, prev, parts, arg, pieces, prefix, fpc>>

mainVars ==
    <<pc, custom, timeseries, starts_with, response, idx, count, GROUP_SET,
      SERVICE_SET, METRIC_DICT, TIME_SERIES_SET, probes, stderr, stdout, calls,
      run, prev>>

callVars ==
    <<parts, arg, pieces, prefix, fpc>>

(***************************************************************************)
(* Bounds of the model.                                                    *)
(***************************************************************************)
\* longest descriptor list a response carries
MaxDescriptors == 3
\* most '/'-separated segments after the first in a type name given to a
\* direct call of get_type_pieces
MaxSegments == 3
\* most calls of read_metric_descriptors on the same globals
MaxCalls == 2
\* longest descriptor list of a response when the call is repeated
MaxRepeatDescriptors == 2

(***************************************************************************)
(* Strings.                                                                *)
(***************************************************************************)
Slash == "/"
Dot == "."

str_agent == <<"a", "g", "e", "n", "t">>
str_aws == <<"a", "w", "s">>
str_custom == <<"c", "u", "s", "t", "o", "m">>
str_gcp == <<"g", "c", "p">>
str_none == <<"n", "o", "n", "e">>
str_compute == <<"c", "o", "m", "p", "u", "t", "e">>
str_googleapis_com ==
    <<".", "g", "o", "o", "g", "l", "e", "a", "p", "i", "s", ".", "c", "o", "m">>
str_cpu == <<"c", "p", "u">>
str_n == <<"n">>
str_m == <<"m">>
str_app == <<"a", "p", "p">>
str_nginx == <<"n", "g", "i", "n", "x">>
str_req == <<"r", "e", "q">>

\* Python's None, where a function returns it instead of a string
NoneValue == <<"<None>">>

\* the characters of the model in code point order: sorted() and the string
\* comparisons of Python order strings by code point
CodePoints ==
    <<"-", ".", "/", "0", "1", "2", "3", "4", "5", "6", "7", "8", "9", "A",
      "B", "C", "D", "E", "F", "G", "H", "I", "J", "K", "L", "M", "N", "O",
      "P", "Q", "R", "S", "T", "U", "V", "W", "X", "Y", "Z", "_", "a", "b",
      "c", "d", "e", "f", "g", "h", "i", "j", "k", "l", "m", "n", "o", "p",
      "q", "r", "s", "t", "u", "v", "w", "x", "y", "z">>

Ord(c) ==
    CHOOSE i \in 1..Len(CodePoints) : CodePoints[i] = c

\* a < b for two strings, as Python compares them
RECURSIVE StrLess(_, _)
StrLess(a, b) ==
    IF b = <<>> THEN FALSE
    ELSE IF a = <<>> THEN TRUE
    ELSE IF Head(a) = Head(b) THEN StrLess(Tail(a), Tail(b))
    ELSE Ord(Head(a)) < Ord(Head(b))

\* sorted(S) for a set of strings
RECURSIVE Sorted(_)
Sorted(S) ==
    IF S = {} THEN <<>>
    ELSE LET least == CHOOSE x \in S : \A y \in S \ {x} : StrLess(x, y)
         IN  <<least>> \o Sorted(S \ {least})

\* s.split(sep): the list of the pieces of s between the separators; a string
\* without separator (the empty string too) gives one piece
RECURSIVE Split(_, _)
Split(s, sep) ==
    IF \A i \in 1..Len(s) : s[i] # sep THEN <<s>>
    ELSE LET i == CHOOSE k \in 1..Len(s) :
                      s[k] = sep /\ \A j \in 1..(k - 1) : s[j] # sep
         IN  <<SubSeq(s, 1, i - 1)>> \o Split(SubSeq(s, i + 1, Len(s)), sep)

\* sep.join(list)
RECURSIVE Join(_, _)
Join(list, sep) ==
    IF list = <<>> THEN <<>>
    ELSE IF Len(list) = 1 THEN list[1]
    ELSE list[1] \o <<sep>> \o Join(Tail(list), sep)

\* list[from:], from counted from 0 as in Python
Slice(list, from) ==
    SubSeq(list, from + 1, Len(list))

\* s.startswith(p)
StartsWith(s, p) ==
    Len(p) <= Len(s) /\ SubSeq(s, 1, Len(p)) = p

\* s.endswith('/')
EndsInSlash(s) ==
    s # <<>> /\ s[Len(s)] = Slash

(***************************************************************************)
(* The classifier.                                                         *)
(***************************************************************************)
Returned(g, s, p) ==
    [raised |-> "none", group |-> g, service |-> s, path |-> p]

Raised(e) ==
    [raised |-> e, group |-> <<>>, service |-> <<>>, path |-> <<>>]

\* get_type_pieces without the branch of lines 71-74: every custom type is
\* split like an agent type
get_type_pieces_no_bare_custom(type) ==
    LET name_split == Split(type, Slash)
        group == Split(name_split[1], Dot)[1]
    IN  IF group \in {str_agent, str_aws, str_custom}
        THEN IF Len(name_split) < 2 THEN Raised("IndexError")
             ELSE Returned(group, name_split[2], Join(Slice(name_split, 2), Slash))
        ELSE Returned(str_gcp, group, Join(Slice(name_split, 1), Slash))

\* name_split[1], which raises IndexError on a list of one element
get_type_pieces(type) ==
    LET name_split == Split(type, Slash)
        group == Split(name_split[1], Dot)[1]
    IN  IF group = str_agent
        THEN IF Len(name_split) < 2 THEN Raised("IndexError")
             ELSE Returned(group, name_split[2], Join(Slice(name_split, 2), Slash))
        ELSE IF group = str_aws
        THEN IF Len(name_split) < 2 THEN Raised("IndexError")
             ELSE Returned(group, name_split[2], Join(Slice(name_split, 2), Slash))
        ELSE IF group = str_custom /\ Len(name_split) > 2
        THEN Returned(group, name_split[2], Join(Slice(name_split, 2), Slash))
        ELSE IF group = str_custom
        THEN Returned(group, <<>>, Join(Slice(name_split, 1), Slash))
        ELSE Returned(str_gcp, group, Join(Slice(name_split, 1), Slash))

\* get_path_prefix with the aws line copied into the agent branch
get_path_prefix_agent_as_aws(g, s) ==
    IF g = str_aws THEN str_aws \o str_googleapis_com \o <<Slash>> \o s
    ELSE IF g = str_agent THEN str_aws \o str_googleapis_com \o <<Slash>> \o s
    ELSE IF g = str_gcp THEN s \o str_googleapis_com
    ELSE IF g = str_custom
    THEN IF s # <<>> THEN str_custom \o str_googleapis_com \o <<Slash>> \o s
         ELSE str_custom \o str_googleapis_com
    ELSE NoneValue

get_path_prefix(g, s) ==
    IF g = str_aws THEN str_aws \o str_googleapis_com \o <<Slash>> \o s
    ELSE IF g = str_agent THEN str_agent \o str_googleapis_com \o <<Slash>> \o s
    ELSE IF g = str_gcp THEN s \o str_googleapis_com
    ELSE IF g = str_custom
    THEN IF s # <<>> THEN str_custom \o str_googleapis_com \o <<Slash>> \o s
         ELSE str_custom \o str_googleapis_com
    ELSE NoneValue

(***************************************************************************)
(* A direct call of the classifier: get_type_pieces(arg), then             *)
(* get_path_prefix on the group and service it returned.                   *)
(***************************************************************************)
DomainTokens == {str_agent, str_aws, str_custom, str_compute, <<>>}
DomainSuffixes == {<<>>, str_googleapis_com}
SegmentWords == {<<>>, str_n, str_cpu}

RECURSIVE SeqsUpTo(_, _)
SeqsUpTo(S, n) ==
    IF n = 0 THEN {<<>>}
    ELSE LET shorter == SeqsUpTo(S, n - 1)
         IN  shorter \cup {Append(q, x) : q \in {r \in shorter : Len(r) = n - 1}, x \in S}

TypeParts ==
    [token : DomainTokens, suffix : DomainSuffixes,
     segments : SeqsUpTo(SegmentWords, MaxSegments)]

\* the type name made of a domain and the segments after it
Assemble(p) ==
    Join(<<p.token \o p.suffix>> \o p.segments, Slash)

NoPieces == Raised("not called")

IdleCall ==
    /\ parts = [token |-> <<>>, suffix |-> <<>>, segments |-> <<>>]
    /\ arg = <<>>
    /\ pieces = NoPieces
    /\ prefix = NoneValue
    /\ fpc = "idle"

(***************************************************************************)
(* Metric descriptors and the response of metricDescriptors.list.          *)
(* A fixed text (a title, a kind, a unit) is a string of one element.      *)
(* Every descriptor carries displayName and description: the print at      *)
(* lines 332-335 calls .encode on both.                                    *)
(***************************************************************************)
Label(key, description, valueType) ==
    [key |-> key, description |-> description, valueType |-> valueType]

Descriptor(type, displayName, description, unit, labels) ==
    [type |-> type, displayName |-> displayName, metricKind |-> <<"GAUGE">>,
     valueType |-> <<"DOUBLE">>, unit |-> unit, description |-> description,
     labels |-> labels]

descr_compute_cpu ==
    Descriptor(str_compute \o str_googleapis_com \o <<Slash>> \o str_cpu,
               <<"CPU usage">>, <<"Usage", ".">>, <<"1">>,
               <<Label(<<"zone">>, NoneValue, NoneValue),
                 Label(<<"core">>, <<"The core">>, <<"INT64">>)>>)

descr_compute_n ==
    Descriptor(str_compute \o str_googleapis_com \o <<Slash>> \o str_n,
               <<"N">>, <<"Queries">>, NoneValue, <<>>)

descr_agent_nginx_req ==
    Descriptor(str_agent \o str_googleapis_com \o <<Slash>> \o str_nginx
                   \o <<Slash>> \o str_req,
               <<"Requests">>, <<>>, <<"1">>, <<>>)

descr_custom_m ==
    Descriptor(str_custom \o str_googleapis_com \o <<Slash>> \o str_m,
               <<"M">>, <<"M">>, NoneValue, <<>>)

\* the domain custom.cloudmonitoring.googleapis.com has the same first
\* component as custom.googleapis.com
descr_custom_legacy_m ==
    Descriptor(str_custom \o <<".", "c", "l", "o", "u", "d", "m", "o", "n",
                               "i", "t", "o", "r", "i", "n", "g">>
                   \o str_googleapis_com \o <<Slash>> \o str_m,
               <<"Legacy M">>, <<"M">>, NoneValue, <<>>)

descr_custom_app_m ==
    Descriptor(str_custom \o str_googleapis_com \o <<Slash>> \o str_app
                   \o <<Slash>> \o str_m,
               <<"App M">>, <<"M">>, NoneValue, <<>>)

\* a type name of one segment
descr_agent_short ==
    Descriptor(str_agent \o str_googleapis_com,
               <<"Agent">>, <<"A">>, NoneValue, <<>>)

Descriptors ==
    {descr_compute_cpu, descr_compute_n, descr_agent_nginx_req, descr_custom_m,
     descr_custom_legacy_m, descr_custom_app_m, descr_agent_short}

\* the descriptors of the two runs that read the same list in two orders
RunDescriptors ==
    {descr_compute_cpu, descr_compute_n, descr_custom_m, descr_custom_legacy_m,
     descr_custom_app_m}

\* the descriptors of the responses when read_metric_descriptors is called
\* again on the same globals
RepeatDescriptors ==
    {descr_compute_cpu, descr_custom_m, descr_custom_app_m, descr_agent_short}

\* a response with the field u'metricDescriptors'
Listing(list, nextPageToken) ==
    [has_metricDescriptors |-> TRUE, metricDescriptors |-> list,
     has_nextPageToken |-> nextPageToken]

\* a response without it (an error body)
NoListing ==
    [has_metricDescriptors |-> FALSE, metricDescriptors |-> <<>>,
     has_nextPageToken |-> FALSE]

Listings(D, n, T) ==
    {Listing(l, t) : l \in SeqsUpTo(D, n), t \in T}

Responses(D, n) ==
    Listings(D, n, BOOLEAN) \cup {NoListing}

StartsWithOptions == {<<>>, str_compute}

(***************************************************************************)
(* The globals and the lines written.                                      *)
(***************************************************************************)
EmptyMap == [x \in {} |-> x]

Line(msg, args) ==
    [msg |-> msg, args |-> args, n |-> 0]

\* the key formatted without its '/'
GsKey_no_slash(g, s) ==
    g \o s

\* '{0}/{1}'.format(g, s)
GsKey(g, s) ==
    g \o <<Slash>> \o s

Classified(descr) ==
    get_type_pieces(descr.type)

(***************************************************************************)
(* read_metric_descriptors.                                                *)
(***************************************************************************)
descriptor_list == response.metricDescriptors

\* lines 138-144: the options written to sys.stderr
OptionLines ==
    <<Line("OPTION: PROJECT", <<>>)>>
    \o (IF starts_with # <<>>
        THEN <<Line("OPTION: STARTS_WITH", <<starts_with>>)>> ELSE <<>>)
    \o (IF custom THEN <<Line("OPTION: WILL LIST CUSTOM METRICS", <<>>)>> ELSE <<>>)
    \o (IF timeseries
        THEN <<Line("OPTION: WILL PROBE FOR TIME SERIES", <<>>)>> ELSE <<>>)

\* lines 138-157, the response having u'metricDescriptors'
Execute ==
    /\ pc = "main"
    /\ response.has_metricDescriptors
    /\ stderr' = stderr \o OptionLines
                 \o (IF response.has_nextPageToken
                     THEN <<Line("ERR: DESCRIPTORS ARE INCOMPLETE.", <<>>)>>
                     ELSE <<>>)
    /\ count' = 0
    /\ idx' = 1
    /\ calls' = calls + 1
    /\ pc' = "loop"
    /\ UNCHANGED <<custom, timeseries, starts_with, response, GROUP_SET,
                   SERVICE_SET, METRIC_DICT, TIME_SERIES_SET, probes, stdout,
                   run, prev>>
    /\ UNCHANGED callVars

\* lines 138-152, the response lacking u'metricDescriptors': the two lines
\* are written, then response[u'metricDescriptors'] raises KeyError, which
\* nothing catches
ExecuteMissing ==
    /\ pc = "main"
    /\ ~response.has_metricDescriptors
    /\ stderr' = stderr \o OptionLines
                 \o <<Line("ERR: FAILED metricDescriptors.list (AUTH?)", <<>>),
                      Line("response", <<>>)>>
    /\ calls' = calls + 1
    /\ pc' = "KeyError"
    /\ UNCHANGED <<custom, timeseries, starts_with, response, idx, count,
                   GROUP_SET, SERVICE_SET, METRIC_DICT, TIME_SERIES_SET, probes,
                   stdout, run, prev>>
    /\ UNCHANGED callVars

\* lines 158-161, get_type_pieces raising: the exception leaves the loop and
\* the function
IngestRaise ==
    /\ pc = "loop"
    /\ idx <= Len(descriptor_list)
    /\ Classified(descriptor_list[idx]).raised # "none"
    /\ count' = count + 1
    /\ pc' = Classified(descriptor_list[idx]).raised
    /\ UNCHANGED <<custom, timeseries, starts_with, response, idx, GROUP_SET,
                   SERVICE_SET, METRIC_DICT, TIME_SERIES_SET, probes, stderr,
                   stdout, calls, run, prev>>
    /\ UNCHANGED callVars

\* lines 158-164: a custom metric that was not asked for
IngestSkip ==
    /\ pc = "loop"
    /\ idx <= Len(descriptor_list)
    /\ LET c == Classified(descriptor_list[idx])
       IN  /\ c.raised = "none"
           /\ c.group = str_custom /\ ~custom
    /\ count' = count + 1
    /\ idx' = idx + 1
    /\ UNCHANGED <<pc, custom, timeseries, starts_with, response, GROUP_SET,
                   SERVICE_SET, METRIC_DICT, TIME_SERIES_SET, probes, stderr,
                   stdout, calls, run, prev>>
    /\ UNCHANGED callVars

\* lines 169-172 without the test of line 169: the set of the group is
\* created anew at every descriptor
AddService_always_new_set(groups, services, g, s) ==
    [k \in groups \cup {g} |-> IF k = g THEN {s} ELSE services[k]]

\* lines 169-172
AddService(groups, services, g, s) ==
    [k \in groups \cup {g} |->
        IF k = g
        THEN (IF g \in groups THEN services[g] ELSE {}) \cup {s}
        ELSE services[k]]

\* lines 177-183: the probe of lines 180-181 is commented out
AddMetric(metrics, gs, p, descr) ==
    [k \in DOMAIN metrics \cup {gs} |->
        IF k = gs
        THEN LET paths == IF gs \in DOMAIN metrics THEN metrics[gs] ELSE EmptyMap
             IN  [q \in DOMAIN paths \cup {p} |-> IF q = p THEN descr ELSE paths[q]]
        ELSE metrics[k]]

\* the iteration without the test of line 163
IngestStore_custom_unfiltered ==
    /\ pc = "loop"
    /\ idx <= Len(descriptor_list)
    /\ LET descr == descriptor_list[idx]
           c == Classified(descr)
           gs == GsKey(c.group, c.service)
       IN  /\ c.raised = "none"
           /\ GROUP_SET' = GROUP_SET \cup {c.group}
           /\ SERVICE_SET' = AddService(GROUP_SET, SERVICE_SET, c.group, c.service)
           /\ METRIC_DICT' = AddMetric(METRIC_DICT, gs, c.path, descr)
    /\ count' = count + 1
    /\ idx' = idx + 1
    /\ UNCHANGED <<pc, custom, timeseries, starts_with, response,
                   TIME_SERIES_SET, probes, stderr, stdout, calls, run, prev>>
    /\ UNCHANGED callVars

\* the iteration counting the paths that are new, not the descriptors read
IngestStore_counts_new_paths ==
    /\ pc = "loop"
    /\ idx <= Len(descriptor_list)
    /\ LET descr == descriptor_list[idx]
           c == Classified(descr)
           gs == GsKey(c.group, c.service)
       IN  /\ c.raised = "none"
           /\ ~(c.group = str_custom /\ ~custom)
           /\ GROUP_SET' = GROUP_SET \cup {c.group}
           /\ SERVICE_SET' = AddService(GROUP_SET, SERVICE_SET, c.group, c.service)
           /\ METRIC_DICT' = AddMetric(METRIC_DICT, gs, c.path, descr)
           /\ count' = IF gs \in DOMAIN METRIC_DICT /\ c.path \in DOMAIN METRIC_DICT[gs]
                       THEN count ELSE count + 1
    /\ idx' = idx + 1
    /\ UNCHANGED <<pc, custom, timeseries, starts_with, response,
                   TIME_SERIES_SET, probes, stderr, stdout, calls, run, prev>>
    /\ UNCHANGED callVars

\* lines 158-183: one iteration that stores the descriptor
IngestStore ==
    /\ pc = "loop"
    /\ idx <= Len(descriptor_list)
    /\ LET descr == descriptor_list[idx]
           c == Classified(descr)
           g == c.group
           s == c.service
           p == c.path
           gs == GsKey(g, s)
       IN  /\ c.raised = "none"
           /\ ~(g = str_custom /\ ~custom)
           /\ GROUP_SET' = GROUP_SET \cup {g}
           /\ SERVICE_SET' = AddService(GROUP_SET, SERVICE_SET, g, s)
           /\ METRIC_DICT' = AddMetric(METRIC_DICT, gs, p, descr)
    /\ count' = count + 1
    /\ idx' = idx + 1
    /\ UNCHANGED <<pc, custom, timeseries, starts_with, response,
                   TIME_SERIES_SET, probes, stderr, stdout, calls, run, prev>>
    /\ UNCHANGED callVars

\* line 184, and line 346 of main
Return ==
    /\ pc = "loop"
    /\ idx > Len(descriptor_list)
    /\ stderr' = Append(stderr, [msg |-> "Read", args |-> <<>>, n |-> count])
    /\ pc' = "returned"
    /\ UNCHANGED <<custom, timeseries, starts_with, response, idx, count,
                   GROUP_SET, SERVICE_SET, METRIC_DICT, TIME_SERIES_SET, probes,
                   stdout, calls, run, prev>>
    /\ UNCHANGED callVars

\* lines 187-203: the number of time series of a timeSeries.list response.
\* No line of the file calls it.
probe_time_series(ts_response) ==
    IF ~ts_response.has_timeSeries THEN 0 ELSE Len(ts_response.timeSeries)

(***************************************************************************)
(* format_metric_lists.                                                    *)
(***************************************************************************)
get_group_title_and_descr(g) ==
    IF g = str_agent
    THEN <<<<"Agent metrics">>,
           <<"Metrics collected by the Stackdriver Monitoring agent.">>>>
    ELSE IF g = str_aws
    THEN <<<<"Amazon Web Services metrics">>,
           <<"Metrics from Amazon Web Services.">>>>
    ELSE IF g = str_custom
    THEN <<<<"Custom metrics">>, <<"Custom metrics defined by users.">>>>
    ELSE <<<<"Google Cloud Platform metrics">>,
           <<"Metrics from Google Cloud Platform services.">>>>

tag_def(t) ==
    <<"{:#">> \o t \o <<"}">>

RECURSIVE Concat(_)
Concat(lists) ==
    IF lists = <<>> THEN <<>> ELSE Head(lists) \o Concat(Tail(lists))

\* not x, for a string or None
Falsy(x) ==
    x = NoneValue \/ x = <<>>

Backtick == "BACKTICK"

\* lines 323-330: one element of formatted_label_list
FormatLabel(label) ==
    <<Backtick>> \o label.key \o <<Backtick>>
    \o (IF Falsy(label.valueType) THEN <<>>
        ELSE <<"(">> \o label.valueType \o <<")">>)
    \o <<":", " ">> \o label.description

\* lines 325-326: the warnings of one metric
LabelWarnings(metric_descriptor) ==
    LET labels == metric_descriptor.labels
    IN  Concat([i \in 1..Len(labels) |->
            IF Falsy(labels[i].description)
            THEN <<Line("NO LABEL DESCRIPTION",
                        <<metric_descriptor.type, labels[i].key>>)>>
            ELSE <<>>])

\* lines 310-335: the row of one metric
MetricRow(metric_path, metric_descriptor) ==
    LET d == metric_descriptor.description
        description == IF ~Falsy(d) /\ d[Len(d)] # "." THEN d \o <<".">> ELSE d
        labels == metric_descriptor.labels
        formatted_label_list == [i \in 1..Len(labels) |-> FormatLabel(labels[i])]
    IN  Line("metric",
             <<metric_path, metric_descriptor.displayName,
               metric_descriptor.metricKind, metric_descriptor.valueType,
               metric_descriptor.unit, description,
               Join(formatted_label_list, "<br/>")>>)

\* lines 297-335: the section of one service
ServiceLines(g, s) ==
    LET gs == GsKey(g, s)
        s_tag == IF s # <<>> THEN s ELSE str_none
        paths == Sorted(DOMAIN METRIC_DICT[gs])
    IN  <<Line("service", <<s_tag, tag_def(g \o <<"-">> \o s_tag)>>),
          Line("prefixed with", <<get_path_prefix(g, s)>>),
          Line("table header", <<>>)>>
        \o [i \in 1..Len(paths) |-> MetricRow(paths[i], METRIC_DICT[gs][paths[i]])]

ServiceWarnings(g, s) ==
    LET gs == GsKey(g, s)
        paths == Sorted(DOMAIN METRIC_DICT[gs])
    IN  Concat([i \in 1..Len(paths) |-> LabelWarnings(METRIC_DICT[gs][paths[i]])])

\* lines 291-335: the section of one group
GroupLines(g) ==
    LET services == Sorted(SERVICE_SET[g])
        title == get_group_title_and_descr(g)
    IN  <<Line("group", <<title[1], tag_def(g)>>),
          Line("group description", <<title[2]>>)>>
        \o Concat([i \in 1..Len(services) |-> ServiceLines(g, services[i])])

GroupWarnings(g) ==
    LET services == Sorted(SERVICE_SET[g])
    IN  Concat([i \in 1..Len(services) |-> ServiceWarnings(g, services[i])])

\* lines 283-336: what format_metric_lists prints
format_metric_lists(prefix_option) ==
    LET groups == Sorted(GROUP_SET)
    IN  <<Line("PAGE_PREFIX", <<>>)>>
        \o (IF prefix_option # <<>>
            THEN <<Line("Note: only metrics whose type names begin with",
                        <<prefix_option>>)>>
            ELSE <<>>)
        \o Concat([i \in 1..Len(groups) |-> GroupLines(groups[i])])
        \o <<Line("PAGE_SUFFIX", <<>>)>>

\* what format_metric_lists writes to sys.stderr
FormatWarnings ==
    LET groups == Sorted(GROUP_SET)
    IN  Concat([i \in 1..Len(groups) |-> GroupWarnings(groups[i])])

\* line 348 of main
Format ==
    /\ pc = "returned"
    /\ stdout' = stdout \o format_metric_lists(starts_with)
    /\ stderr' = stderr \o FormatWarnings
    /\ pc' = "done"
    /\ UNCHANGED <<custom, timeseries, starts_with, response, idx, count,
                   GROUP_SET, SERVICE_SET, METRIC_DICT, TIME_SERIES_SET, probes,
                   calls, run, prev>>
    /\ UNCHANGED callVars

(***************************************************************************)
(* One run of main().                                                      *)
(***************************************************************************)
NoRun ==
    [list |-> <<>>, GROUP_SET |-> {}, SERVICE_SET |-> EmptyMap,
     METRIC_DICT |-> EmptyMap, stdout |-> <<>>]

\* the module as imported: lines 127-130
FreshProcess ==
    /\ idx = 1
    /\ count = 0
    /\ GROUP_SET = {}
    /\ SERVICE_SET = EmptyMap
    /\ METRIC_DICT = EmptyMap
    /\ TIME_SERIES_SET = {}
    /\ probes = <<>>
    /\ stderr = <<>>
    /\ stdout = <<>>
    /\ calls = 0
    /\ run = 1
    /\ prev = NoRun

\* lines 342-345 and 353-369: the options and the response of the service
Init ==
    /\ pc = "main"
    /\ custom \in BOOLEAN
    /\ timeseries \in BOOLEAN
    /\ starts_with \in StartsWithOptions
    /\ response \in Responses(Descriptors, MaxDescriptors)
    /\ FreshProcess
    /\ IdleCall

Next ==
    \/ Execute
    \/ ExecuteMissing
    \/ IngestRaise
    \/ IngestSkip
    \/ IngestStore
    \/ Return
    \/ Format

Spec == Init /\ [][Next]_vars

(***************************************************************************)
(* Two runs of main(), each in a process of its own, the second reading    *)
(* the descriptors of the first in another order.                          *)
(***************************************************************************)
Reorderings(list) ==
    {[i \in 1..Len(list) |-> list[f[i]]] :
        f \in {h \in [1..Len(list) -> 1..Len(list)] :
                  \A i, j \in 1..Len(list) : h[i] = h[j] => i = j}}

NextRun ==
    /\ pc = "done"
    /\ run = 1
    /\ prev' = [list |-> descriptor_list, GROUP_SET |-> GROUP_SET,
                SERVICE_SET |-> SERVICE_SET, METRIC_DICT |-> METRIC_DICT,
                stdout |-> stdout]
    /\ run' = 2
    /\ response' \in {Listing(l, response.has_nextPageToken) :
                         l \in Reorderings(descriptor_list)}
    /\ pc' = "main"
    /\ idx' = 1
    /\ count' = 0
    /\ GROUP_SET' = {}
    /\ SERVICE_SET' = EmptyMap
    /\ METRIC_DICT' = EmptyMap
    /\ TIME_SERIES_SET' = {}
    /\ probes' = <<>>
    /\ stderr' = <<>>
    /\ stdout' = <<>>
    /\ calls' = 0
    /\ UNCHANGED <<custom, timeseries, starts_with>>
    /\ UNCHANGED callVars

InitTwoRuns ==
    /\ pc = "main"
    /\ custom \in BOOLEAN
    /\ timeseries = FALSE
    /\ starts_with = <<>>
    /\ response \in Listings(RunDescriptors, MaxDescriptors, {FALSE})
    /\ FreshProcess
    /\ IdleCall

NextTwoRuns ==
    \/ Execute
    \/ IngestSkip
    \/ IngestStore
    \/ Return
    \/ Format
    \/ NextRun

SpecTwoRuns == InitTwoRuns /\ [][NextTwoRuns]_vars

(***************************************************************************)
(* read_metric_descriptors called again by the same process, on the same   *)
(* globals.                                                                *)
(***************************************************************************)
RepeatResponses ==
    Listings(RepeatDescriptors, MaxRepeatDescriptors, {FALSE}) \cup {NoListing}

CallAgain ==
    /\ pc = "returned"
    /\ calls < MaxCalls
    /\ response' \in RepeatResponses
    /\ custom' \in BOOLEAN
    /\ pc' = "main"
    /\ UNCHANGED <<timeseries, starts_with, idx, count, GROUP_SET, SERVICE_SET,
                   METRIC_DICT, TIME_SERIES_SET, probes, stderr, stdout, calls,
                   run, prev>>
    /\ UNCHANGED callVars

InitRepeated ==
    /\ pc = "main"
    /\ custom \in BOOLEAN
    /\ timeseries = FALSE
    /\ starts_with = <<>>
    /\ response \in RepeatResponses
    /\ FreshProcess
    /\ IdleCall

NextRepeated ==
    \/ Execute
    \/ ExecuteMissing
    \/ IngestRaise
    \/ IngestSkip
    \/ IngestStore
    \/ Return
    \/ CallAgain
    \/ Format

SpecRepeated == InitRepeated /\ [][NextRepeated]_vars

(***************************************************************************)
(* A direct call get_type_pieces(arg), then get_path_prefix(g, s).         *)
(***************************************************************************)
IdleMain ==
    /\ pc = "idle"
    /\ custom = FALSE
    /\ timeseries = FALSE
    /\ starts_with = <<>>
    /\ response = NoListing
    /\ FreshProcess

InitClassify ==
    /\ parts \in TypeParts
    /\ arg = Assemble(parts)
    /\ pieces = NoPieces
    /\ prefix = NoneValue
    /\ fpc = "call"
    /\ IdleMain

Classify ==
    /\ fpc = "call"
    /\ get_type_pieces(arg).raised = "none"
    /\ pieces' = get_type_pieces(arg)
    /\ fpc' = "classified"
    /\ UNCHANGED <<parts, arg, prefix>>
    /\ UNCHANGED mainVars

ClassifyRaise ==
    /\ fpc = "call"
    /\ get_type_pieces(arg).raised # "none"
    /\ pieces' = get_type_pieces(arg)
    /\ fpc' = "raised"
    /\ UNCHANGED <<parts, arg, prefix>>
    /\ UNCHANGED mainVars

Prefix ==
    /\ fpc = "classified"
    /\ prefix' = get_path_prefix(pieces.group, pieces.service)
    /\ fpc' = "prefixed"
    /\ UNCHANGED <<parts, arg, pieces>>
    /\ UNCHANGED mainVars

NextClassify ==
    \/ Classify
    \/ ClassifyRaise
    \/ Prefix

SpecClassify == InitClassify /\ [][NextClassify]_vars

(***************************************************************************)
(* Properties of the classifier, checked under SpecClassify.               *)
(***************************************************************************)
\* the call has returned or raised
Called == fpc \in {"classified", "raised", "prefixed"}

\* C1: for a type name of at least two segments, get_type_pieces returns by
\* the domain token: "agent" and "aws" give that group, the second segment as
\* service and the segments from the third on as path; "custom" with more
\* than two segments likewise; "custom" with two segments gives the service
\* '' and the second segment as path; any other token gives the group "gcp",
\* the token as service and all segments after the first as path.
C1_TypePiecesRules ==
    (Called /\ Len(parts.segments) >= 1) =>
        LET token == parts.token
            rest == parts.segments
        IN  pieces =
                IF token \in {str_agent, str_aws}
                THEN Returned(token, rest[1], Join(Tail(rest), Slash))
                ELSE IF token = str_custom /\ Len(rest) > 1
                THEN Returned(str_custom, rest[1], Join(Tail(rest), Slash))
                ELSE IF token = str_custom
                THEN Returned(str_custom, <<>>, rest[1])
                ELSE Returned(str_gcp, token, Join(rest, Slash))

C1_Witness ==
    /\ fpc = "classified"
    /\ parts.token = str_custom
    /\ parts.suffix = str_googleapis_com
    /\ parts.segments = <<str_cpu>>
    /\ pieces = Returned(str_custom, <<>>, str_cpu)

\* a type name of its group's shape: <token>.googleapis.com/<segment>/...
WellFormed ==
    parts.suffix = str_googleapis_com /\ Len(parts.segments) >= 1

\* C2: for a well-formed type name, get_path_prefix of the group and service
\* that get_type_pieces returned is a string prefix of the type name.
C2_PrefixOfType ==
    (fpc = "prefixed" /\ WellFormed) => StartsWith(arg, prefix)

C2_Witness ==
    /\ fpc = "prefixed"
    /\ WellFormed
    /\ parts.token = str_agent
    /\ parts.segments = <<str_n, str_cpu>>
    /\ prefix = str_agent \o str_googleapis_com \o <<Slash>> \o str_n

\* C6: get_type_pieces on a type name of fewer than two segments fails with
\* MalformedTypeName: it raises no IndexError and returns no triple.
C6_MalformedTypeName ==
    (Called /\ Len(parts.segments) = 0) => pieces.raised = "MalformedTypeName"

\* C8: the result of get_path_prefix, for a group and a service that
\* get_type_pieces returned, never ends in '/'.
C8_NoTrailingSlash ==
    fpc = "prefixed" => ~EndsInSlash(prefix)

(***************************************************************************)
(* Properties of one run of main(), checked under Spec.                    *)
(***************************************************************************)
\* the positions of descriptor_list whose iteration is over
Processed ==
    IF pc \in {"loop", "returned", "done", "IndexError"} THEN 1..(idx - 1) ELSE {}

IsCustom(descr) ==
    Classified(descr).raised = "none" /\ Classified(descr).group = str_custom

CustomKey(descr) ==
    str_custom \o <<Slash>> \o Classified(descr).service

\* no custom metric is in the catalog
NoCustomInCatalog ==
    /\ str_custom \notin GROUP_SET
    /\ str_custom \notin DOMAIN SERVICE_SET
    /\ \A k \in DOMAIN METRIC_DICT : ~StartsWith(k, str_custom \o <<Slash>>)

\* the last processed descriptor of the classification of descriptor_list[j]
LastOfSameClass(j) ==
    LET same == {k \in Processed :
                    Classified(descriptor_list[k]) = Classified(descriptor_list[j])}
    IN  descriptor_list[CHOOSE k \in same : \A m \in same : m <= k]

\* C3 as stated: without --custom no custom metric is in the catalog; with
\* it every processed custom descriptor is stored under 'custom/<service>'
\* at its path.
C3_EveryCustomStored ==
    /\ ~custom => NoCustomInCatalog
    /\ custom =>
        \A j \in Processed :
            IsCustom(descriptor_list[j]) =>
                /\ CustomKey(descriptor_list[j]) \in DOMAIN METRIC_DICT
                /\ Classified(descriptor_list[j]).path
                       \in DOMAIN METRIC_DICT[CustomKey(descriptor_list[j])]
                /\ METRIC_DICT[CustomKey(descriptor_list[j])]
                       [Classified(descriptor_list[j]).path] = descriptor_list[j]

\* C3 as amended: without --custom no custom metric is in the catalog; with
\* it every processed custom descriptor has an entry under
\* 'custom/<service>' at its path, which holds the last processed descriptor
\* of that group, service and path.
C3_CustomFlag ==
    /\ ~custom => NoCustomInCatalog
    /\ custom =>
        \A j \in Processed :
            IsCustom(descriptor_list[j]) =>
                /\ CustomKey(descriptor_list[j]) \in DOMAIN METRIC_DICT
                /\ Classified(descriptor_list[j]).path
                       \in DOMAIN METRIC_DICT[CustomKey(descriptor_list[j])]
                /\ METRIC_DICT[CustomKey(descriptor_list[j])]
                       [Classified(descriptor_list[j]).path] = LastOfSameClass(j)

C3_Witness ==
    /\ pc = "done"
    /\ ~custom
    /\ \E j \in Processed : IsCustom(descriptor_list[j])
    /\ GROUP_SET = {str_gcp}

\* the iteration at idx stores a descriptor that an earlier iteration stored
SecondIngest ==
    /\ pc = "loop"
    /\ idx <= Len(descriptor_list)
    /\ idx' = idx + 1
    /\ \E j \in 1..(idx - 1) : descriptor_list[j] = descriptor_list[idx]
    /\ ~(IsCustom(descriptor_list[idx]) /\ ~custom)

\* C5: ingesting a descriptor a second time adds no group, no service, no
\* key and no path, leaves the descriptor at its path, and the count has
\* grown by one for each descriptor read, the two ingests included.
C5_SecondIngest ==
    [][SecondIngest =>
        LET c == Classified(descriptor_list[idx])
            gs == c.group \o <<Slash>> \o c.service
        IN  /\ GROUP_SET' = GROUP_SET
            /\ SERVICE_SET' = SERVICE_SET
            /\ DOMAIN METRIC_DICT' = DOMAIN METRIC_DICT
            /\ DOMAIN METRIC_DICT'[gs] = DOMAIN METRIC_DICT[gs]
            /\ METRIC_DICT'[gs][c.path] = descriptor_list[idx]
            /\ count = idx - 1
            /\ count' = count + 1]_vars

C5_Witness ==
    /\ pc = "returned"
    /\ descriptor_list = <<descr_compute_cpu, descr_compute_cpu>>
    /\ count = 2
    /\ DOMAIN METRIC_DICT = {str_gcp \o <<Slash>> \o str_compute}
    /\ DOMAIN METRIC_DICT[str_gcp \o <<Slash>> \o str_compute] = {str_cpu}

\* C7: a response without u'metricDescriptors' is logged and ends the call as
\* a handled FetchFailure, not as an uncaught exception, the globals unchanged.
C7_FetchFailure ==
    (~response.has_metricDescriptors /\ pc \notin {"main", "idle"}) =>
        /\ pc = "FetchFailure"
        /\ \E i \in 1..Len(stderr) :
              stderr[i].msg = "ERR: FAILED metricDescriptors.list (AUTH?)"
        /\ GROUP_SET = {} /\ SERVICE_SET = EmptyMap /\ METRIC_DICT = EmptyMap

\* the type of the first processed descriptor stored under key gs
FirstTypeOf(gs) ==
    LET under == {j \in Processed :
                     /\ Classified(descriptor_list[j]).raised = "none"
                     /\ ~(IsCustom(descriptor_list[j]) /\ ~custom)
                     /\ GsKey(Classified(descriptor_list[j]).group,
                              Classified(descriptor_list[j]).service) = gs}
    IN  descriptor_list[CHOOSE j \in under : \A k \in under : j <= k].type

\* C9: with --timeseries, one probe is issued per group/service, for the type
\* of the first descriptor of the pair, and only probed pairs are in
\* TIME_SERIES_SET.
C9_OneProbePerService ==
    (timeseries /\ pc \in {"loop", "returned", "done"}) =>
        /\ Len(probes) = Cardinality(DOMAIN METRIC_DICT)
        /\ {probes[i] : i \in 1..Len(probes)}
               = {FirstTypeOf(gs) : gs \in DOMAIN METRIC_DICT}
        /\ TIME_SERIES_SET \subseteq DOMAIN METRIC_DICT

(***************************************************************************)
(* Properties of two runs on the same descriptors, under SpecTwoRuns.      *)
(***************************************************************************)
\* the second run ended with the catalog and the page of the first
SameAsFirstRun ==
    /\ GROUP_SET = prev.GROUP_SET
    /\ SERVICE_SET = prev.SERVICE_SET
    /\ METRIC_DICT = prev.METRIC_DICT
    /\ stdout = prev.stdout

\* t for the tag '{:#t}'
Untagged(tag) ==
    SubSeq(tag, 2, Len(tag) - 1)

\* the service of a service heading: 'none' stands for ''
HeadingService(line) ==
    IF line.args[1] = str_none THEN <<>> ELSE line.args[1]

\* the page lists every group once and the groups, the services of a group
\* and the paths of a service in increasing order
RowsInOrder ==
    /\ Cardinality({i \in 1..Len(stdout) : stdout[i].msg = "group"})
           = Cardinality(GROUP_SET)
    /\ \A i, j \in 1..Len(stdout) :
          i < j =>
            /\ (stdout[i].msg = "group" /\ stdout[j].msg = "group") =>
                   StrLess(Untagged(stdout[i].args[2]), Untagged(stdout[j].args[2]))
            /\ (/\ stdout[i].msg = "service" /\ stdout[j].msg = "service"
                /\ \A k \in i..j : stdout[k].msg # "group") =>
                   StrLess(HeadingService(stdout[i]), HeadingService(stdout[j]))
            /\ (/\ stdout[i].msg = "metric" /\ stdout[j].msg = "metric"
                /\ \A k \in i..j : stdout[k].msg \notin {"group", "service"}) =>
                   StrLess(stdout[i].args[1], stdout[j].args[1])

\* no two different descriptors of the list have the same group, service
\* and path
NoSharedPath ==
    \A i, j \in 1..Len(descriptor_list) :
        Classified(descriptor_list[i]) = Classified(descriptor_list[j])
            => descriptor_list[i] = descriptor_list[j]

\* C4 as stated: two runs that read the same descriptors in two orders end
\* with the same GROUP_SET, SERVICE_SET and METRIC_DICT and print the same
\* page, its groups, services and paths in increasing order.
C4_AnyDescriptors ==
    /\ (run = 2 /\ pc = "done") => SameAsFirstRun
    /\ pc = "done" => RowsInOrder

\* C4 as amended: the same, for descriptors no two of which, if different,
\* have the same group, service and path.
C4_OrderIndependent ==
    /\ (run = 2 /\ pc = "done" /\ NoSharedPath) => SameAsFirstRun
    /\ pc = "done" => RowsInOrder

C4_Witness ==
    /\ run = 2
    /\ pc = "done"
    /\ custom
    /\ NoSharedPath
    /\ prev.list = <<descr_custom_app_m, descr_compute_n, descr_compute_cpu>>
    /\ descriptor_list = <<descr_compute_cpu, descr_compute_n, descr_custom_app_m>>
    /\ stdout = prev.stdout

(***************************************************************************)
(* Property of the globals, under SpecRepeated.                            *)
(***************************************************************************)
\* C10: GROUP_SET holds only the four group codes and is the key set of
\* SERVICE_SET; every service s of a group g has the key 'g/s' in
\* METRIC_DICT, with at least one path; every key of METRIC_DICT is 'g/s'
\* for a service s of a group g.
C10_CatalogConsistent ==
    /\ GROUP_SET \subseteq {str_gcp, str_aws, str_agent, str_custom}
    /\ GROUP_SET = DOMAIN SERVICE_SET
    /\ \A g \in GROUP_SET :
          \A s \in SERVICE_SET[g] :
              /\ (g \o <<Slash>> \o s) \in DOMAIN METRIC_DICT
              /\ DOMAIN METRIC_DICT[g \o <<Slash>> \o s] # {}
    /\ \A k \in DOMAIN METRIC_DICT :
          \E g \in GROUP_SET : \E s \in SERVICE_SET[g] : k = g \o <<Slash>> \o s

C10_Witness ==
    /\ pc = "done"
    /\ calls = 2
    /\ ~custom
    /\ GROUP_SET = {str_gcp, str_custom}
    /\ count = 1

====
